---- MODULE Spec2Model ----
(***************************************************************************)
(* The /analyze endpoint of the ReplyRate backend, in its two variants:    *)
(*   variant "A" : src/backend/main.py  (mock scorer, static fallback)     *)
(*   variant "B" : src/main.py          (heuristic scorer and fallback)    *)
(* Text is a sequence of one-character strings, so that strip(), lower(),  *)
(* len() and the substring test work as they do in the code.               *)
(***************************************************************************)
EXTENDS Integers, Sequences, FiniteSets, TLC

VARIABLES
    variant,      \* "A" = src/backend/main.py, "B" = src/main.py
    api_key,      \* OPENAI_API_KEY: "unset", "empty" or "set"
    pc,           \* position of the handler: idle, try, awaiting, done
    raw,          \* req.message as received
    msg,          \* the stripped message
    reply,        \* what the remote call returned
    outcome,      \* the HTTP outcome of the request
    remoteCalls,  \* remote calls issued for the request
    path,         \* the steps the request went through
    prev          \* the previous request's message and outcome

vars == <<variant, api_key, pc, raw, msg, reply, outcome, remoteCalls, path, prev>>

(***************************************************************************)
(* Bounds of the model.                                                    *)
(***************************************************************************)
MaxWords == 2

(***************************************************************************)
(* Python built-ins used by the handlers.                                  *)
(***************************************************************************)
Max(a, b) == IF a >= b THEN a ELSE b

Min(a, b) == IF a <= b THEN a ELSE b

\* a // b for b > 0 (floor division)
FloorDiv(a, b) == a \div b

Whitespace == {" ", "\t", "\n"}

RECURSIVE LStrip(_)
LStrip(s) == IF s # <<>> /\ Head(s) \in Whitespace THEN LStrip(Tail(s)) ELSE s

RECURSIVE RStrip(_)
RStrip(s) ==
    IF s # <<>> /\ s[Len(s)] \in Whitespace
    THEN RStrip(SubSeq(s, 1, Len(s) - 1)) ELSE s

\* strip() forgotten
StripOmitted(s) == s

\* str.strip()
Strip(s) == RStrip(LStrip(s))

Uppers ==
    << "A","B","C","D","E","F","G","H","I","J","K","L","M",
       "N","O","P","Q","R","S","T","U","V","W","X","Y","Z" >>

Lowers ==
    << "a","b","c","d","e","f","g","h","i","j","k","l","m",
       "n","o","p","q","r","s","t","u","v","w","x","y","z" >>

UpperToLower ==
    [c \in {Uppers[i] : i \in DOMAIN Uppers} |->
        Lowers[CHOOSE i \in DOMAIN Uppers : Uppers[i] = c]]

\* str.lower()
Lower(s) ==
    [i \in 1..Len(s) |->
        IF s[i] \in DOMAIN UpperToLower THEN UpperToLower[s[i]] ELSE s[i]]

\* w in s  (substring test)
Contains(s, w) ==
    \E i \in 1..(Len(s) - Len(w) + 1) :
        \A j \in 1..Len(w) : s[i + j - 1] = w[j]

(***************************************************************************)
(* Literals of the code.                                                   *)
(* The dashes and hyphens of the response texts, which are not ASCII in    *)
(* the source, are written "-".                                            *)
(***************************************************************************)
KwCalendar == <<"c","a","l","e","n","d","a","r">>
KwSchedule == <<"s","c","h","e","d","u","l","e">>
KwFree == <<"f","r","e","e">>
KwDiscount == <<"d","i","s","c","o","u","n","t">>
KwLimitedTime == <<"l","i","m","i","t","e","d"," ","t","i","m","e">>
KwYou == <<"y","o","u">>
KwYour == <<"y","o","u","r">>
KwYours == <<"y","o","u","r","s">>

MsgShort == "Message is quite short; limited context reduces relevance."
MsgLong == "Message is long; busy recipients may skim or ignore."
MsgCalendar == "Requesting time too early can depress replies."
MsgSalesy == "Salesy phrasing may reduce trust."
MsgNoYou == "Insufficient recipient focus."

DefaultReasons ==
    << "Tighten the ask to something low-commitment.",
       "Add one concrete, recipient-centric benefit.",
       "Personalize with a recent post, project, or metric." >>

HeuristicImproved ==
    "Hey there - noticed your recent work on [specific initiative]. We helped a similar team achieve [clear outcome] without extra lift. Worth a quick async walkthrough or a 7-min chat next week?"

MockReasons ==
    << "Message could be more personalized",
       "CTA may feel time-consuming without clear value",
       "Tighten the copy and lead with the outcome" >>

MockImproved ==
    "Hey - loved your recent post. We helped a similar team hit measurable wins (e.g., +27% faster ramp). Would a 7-min async walkthrough help you see if it fits your priorities?"

StaticFallback ==
    [score |-> 70,
     reasons |-> << "Temporary analysis issue, showing smart estimate",
                    "Try again in a moment" >>,
     improved |-> "Refocus on the recipient's outcome, personalize one detail, and propose a low-lift next step (e.g., a 7-minute async walkthrough)."]

(***************************************************************************)
(* Variant B: the heuristic scorer.                                        *)
(***************************************************************************)
\* the rules without lower(): the keyword tests become case-sensitive
HeuristicRulesCaseSensitive(m) ==
    LET s0 == [score |-> 75, reasons |-> <<>>]
        s1 == IF Len(m) < 80
              THEN [score |-> s0.score - 8, reasons |-> Append(s0.reasons, MsgShort)]
              ELSE s0
        s2 == IF Len(m) > 600
              THEN [score |-> s1.score - 10, reasons |-> Append(s1.reasons, MsgLong)]
              ELSE s1
        s3 == IF Contains(m, KwCalendar) \/ Contains(m, KwSchedule)
              THEN [score |-> s2.score - 5, reasons |-> Append(s2.reasons, MsgCalendar)]
              ELSE s2
        s4 == IF \E w \in {KwFree, KwDiscount, KwLimitedTime} : Contains(m, w)
              THEN [score |-> s3.score - 6, reasons |-> Append(s3.reasons, MsgSalesy)]
              ELSE s3
        s5 == IF ~ \E x \in {KwYou, KwYour, KwYours} : Contains(m, x)
              THEN [score |-> s4.score - 7, reasons |-> Append(s4.reasons, MsgNoYou)]
              ELSE s4
    IN  s5

\* the rules with the recipient test inverted (the "not" dropped)
HeuristicRulesYouInverted(m) ==
    LET lower == Lower(m)
        s0 == [score |-> 75, reasons |-> <<>>]
        s1 == IF Len(m) < 80
              THEN [score |-> s0.score - 8, reasons |-> Append(s0.reasons, MsgShort)]
              ELSE s0
        s2 == IF Len(m) > 600
              THEN [score |-> s1.score - 10, reasons |-> Append(s1.reasons, MsgLong)]
              ELSE s1
        s3 == IF Contains(lower, KwCalendar) \/ Contains(lower, KwSchedule)
              THEN [score |-> s2.score - 5, reasons |-> Append(s2.reasons, MsgCalendar)]
              ELSE s2
        s4 == IF \E w \in {KwFree, KwDiscount, KwLimitedTime} : Contains(lower, w)
              THEN [score |-> s3.score - 6, reasons |-> Append(s3.reasons, MsgSalesy)]
              ELSE s3
        s5 == IF \E x \in {KwYou, KwYour, KwYours} : Contains(lower, x)
              THEN [score |-> s4.score - 7, reasons |-> Append(s4.reasons, MsgNoYou)]
              ELSE s4
    IN  s5

\* the rules with the short threshold typed 800, so that short and long overlap
HeuristicRulesShort800(m) ==
    LET lower == Lower(m)
        s0 == [score |-> 75, reasons |-> <<>>]
        s1 == IF Len(m) < 800
              THEN [score |-> s0.score - 8, reasons |-> Append(s0.reasons, MsgShort)]
              ELSE s0
        s2 == IF Len(m) > 600
              THEN [score |-> s1.score - 10, reasons |-> Append(s1.reasons, MsgLong)]
              ELSE s1
        s3 == IF Contains(lower, KwCalendar) \/ Contains(lower, KwSchedule)
              THEN [score |-> s2.score - 5, reasons |-> Append(s2.reasons, MsgCalendar)]
              ELSE s2
        s4 == IF \E w \in {KwFree, KwDiscount, KwLimitedTime} : Contains(lower, w)
              THEN [score |-> s3.score - 6, reasons |-> Append(s3.reasons, MsgSalesy)]
              ELSE s3
        s5 == IF ~ \E x \in {KwYou, KwYour, KwYours} : Contains(lower, x)
              THEN [score |-> s4.score - 7, reasons |-> Append(s4.reasons, MsgNoYou)]
              ELSE s4
    IN  s5

\* the locals score and reasons after the five rules, before the clamp
HeuristicRules(m) ==
    LET lower == Lower(m)
        s0 == [score |-> 75, reasons |-> <<>>]
        s1 == IF Len(m) < 80
              THEN [score |-> s0.score - 8, reasons |-> Append(s0.reasons, MsgShort)]
              ELSE s0
        s2 == IF Len(m) > 600
              THEN [score |-> s1.score - 10, reasons |-> Append(s1.reasons, MsgLong)]
              ELSE s1
        s3 == IF Contains(lower, KwCalendar) \/ Contains(lower, KwSchedule)
              THEN [score |-> s2.score - 5, reasons |-> Append(s2.reasons, MsgCalendar)]
              ELSE s2
        s4 == IF \E w \in {KwFree, KwDiscount, KwLimitedTime} : Contains(lower, w)
              THEN [score |-> s3.score - 6, reasons |-> Append(s3.reasons, MsgSalesy)]
              ELSE s3
        s5 == IF ~ \E x \in {KwYou, KwYour, KwYours} : Contains(lower, x)
              THEN [score |-> s4.score - 7, reasons |-> Append(s4.reasons, MsgNoYou)]
              ELSE s4
    IN  s5

Clamp(lo, hi, x) == Max(lo, Min(hi, x))

\* the scorer with the lower clamp bound typed 200
HeuristicClamp200(m) ==
    LET h == HeuristicRules(m)
    IN  [score |-> Clamp(200, 92, h.score),
         reasons |-> IF h.reasons = <<>> THEN DefaultReasons ELSE h.reasons,
         improved |-> HeuristicImproved]

Heuristic(m) ==
    LET h == HeuristicRules(m)
    IN  [score |-> Clamp(20, 92, h.score),
         reasons |-> IF h.reasons = <<>> THEN DefaultReasons ELSE h.reasons,
         improved |-> HeuristicImproved]

(***************************************************************************)
(* Variant A: the mock scorer used without a credential.                   *)
(***************************************************************************)
Mock(m) ==
    LET length_penalty == Max(0, FloorDiv(Len(m) - 400, 40))
        base == 72
    IN  [score |-> Max(35, Min(95, base - length_penalty)),
         reasons |-> MockReasons,
         improved |-> MockImproved]

(***************************************************************************)
(* JSON values of the remote reply.  A string carries its text in s when   *)
(* it is only passed on, and in chars when it is parsed as a number; a     *)
(* float carries its value in tenths.                                      *)
(***************************************************************************)
JVal(t, n, s, chars, items) ==
    [t |-> t, n |-> n, s |-> s, chars |-> chars, items |-> items]

JMissing == JVal("missing", 0, "", <<>>, <<>>)

JNull == JVal("null", 0, "", <<>>, <<>>)

JInt(n) == JVal("int", n, "", <<>>, <<>>)

JFloat(tenths) == JVal("float", tenths, "", <<>>, <<>>)

JStr(s) == JVal("str", 0, s, <<>>, <<>>)

JChars(chars) == JVal("str", 0, "", chars, <<>>)

JList(items) == JVal("list", 0, "", <<>>, items)

\* dict.get(key, default)
Get(v, default) == IF v.t = "missing" THEN default ELSE v

\* bool(v)
Truthy(v) ==
    CASE v.t = "null" -> FALSE
      [] v.t = "int" -> v.n # 0
      [] v.t = "float" -> v.n # 0
      [] v.t = "str" -> v.s # "" \/ v.chars # <<>>
      [] v.t = "list" -> v.items # <<>>
      [] OTHER -> FALSE

\* a or b
Or(a, b) == IF Truthy(a) THEN a ELSE b

Digits == <<"0","1","2","3","4","5","6","7","8","9">>

IsDigit(c) == \E d \in DOMAIN Digits : Digits[d] = c

DigitVal(c) == (CHOOSE d \in DOMAIN Digits : Digits[d] = c) - 1

RECURSIVE ParseDigits(_, _)
ParseDigits(cs, acc) ==
    IF cs = <<>> THEN acc
    ELSE ParseDigits(Tail(cs), 10 * acc + DigitVal(Head(cs)))

\* int(str): an optional sign and at least one digit, else ValueError
ParseInt(cs) ==
    LET signed == cs # <<>> /\ Head(cs) \in {"+", "-"}
        body == IF signed THEN Tail(cs) ELSE cs
    IN  IF body # <<>> /\ \A i \in DOMAIN body : IsDigit(body[i])
        THEN [ok |-> TRUE,
              n |-> IF signed /\ Head(cs) = "-"
                    THEN 0 - ParseDigits(body, 0) ELSE ParseDigits(body, 0)]
        ELSE [ok |-> FALSE, n |-> 0]

\* int(v): truncates a float toward zero, parses a string, raises on None
PyInt(v) ==
    CASE v.t = "int" -> [ok |-> TRUE, n |-> v.n]
      [] v.t = "float" ->
            [ok |-> TRUE,
             n |-> IF v.n >= 0 THEN v.n \div 10 ELSE 0 - ((0 - v.n) \div 10)]
      [] v.t = "str" -> ParseInt(v.chars)
      [] OTHER -> [ok |-> FALSE, n |-> 0]

\* str(v), for the values reasons can take
Str(v) ==
    CASE v.t = "null" -> "None"
      [] v.t = "str" -> v.s
      [] OTHER -> "repr"

IsStr(v) == v.t = "str"

IsList(v) == v.t = "list"

\* pydantic validation of AnalyzeResponse(score=int, reasons=..., improved=...)
ValidResponse(reasonsV, improvedV) ==
    /\ IsList(reasonsV)
    /\ \A i \in DOMAIN reasonsV.items : IsStr(reasonsV.items[i])
    /\ IsStr(improvedV)

MakeResponse(scoreN, reasonsV, improvedV) ==
    [score |-> scoreN,
     reasons |-> [i \in DOMAIN reasonsV.items |-> reasonsV.items[i].s],
     improved |-> improvedV.s]

NoResponse == [score |-> 0, reasons |-> <<>>, improved |-> ""]

\* an exception left the try block
Raised == [ok |-> FALSE, resp |-> NoResponse]

Returned(resp) == [ok |-> TRUE, resp |-> resp]

(***************************************************************************)
(* Outcomes.                                                               *)
(***************************************************************************)
NoOutcome == [kind |-> "none", status |-> 0, resp |-> NoResponse]

Error(status) == [kind |-> "error", status |-> status, resp |-> NoResponse]

Ok(resp) == [kind |-> "response", status |-> 200, resp |-> resp]

(***************************************************************************)
(* The remote reply.  kind tells what came back: "object" (the output text *)
(* is a JSON object with the fields below), "bare" (variant A: the body    *)
(* has no output text and carries the fields itself), "array" (the text is *)
(* a JSON array) or "not_json".                                            *)
(***************************************************************************)
Reply(kind, scoreV, reasonsV, improvedV) ==
    [kind |-> kind, score |-> scoreV, reasons |-> reasonsV, improved |-> improvedV]

NoReply == Reply("none", JMissing, JMissing, JMissing)

\* the same without the clamp of the score
RemoteBUnclamped(rep) ==
    IF rep.kind # "object" THEN Raised
    ELSE
    LET sc == PyInt(Get(rep.score, JInt(68)))
        reasons0 == Or(Get(rep.reasons, JList(<<>>)), JList(<<>>))
        improved == Or(Get(rep.improved, JStr("")), JStr(""))
        reasons == IF ~ IsList(reasons0)
                   THEN IF Truthy(reasons0)
                        THEN JList(<< JStr(Str(reasons0)) >>) ELSE JList(<<>>)
                   ELSE reasons0
    IN  IF ~ sc.ok THEN Raised
        ELSE IF ~ ValidResponse(reasons, improved) THEN Raised
        ELSE Returned(MakeResponse(sc.n, reasons, improved))

\* src/main.py: from json.loads(content) to the return inside the try block
RemoteB(rep) ==
    IF rep.kind # "object" THEN Raised
    ELSE
    LET sc == PyInt(Get(rep.score, JInt(68)))
        reasons0 == Or(Get(rep.reasons, JList(<<>>)), JList(<<>>))
        improved == Or(Get(rep.improved, JStr("")), JStr(""))
        reasons == IF ~ IsList(reasons0)
                   THEN IF Truthy(reasons0)
                        THEN JList(<< JStr(Str(reasons0)) >>) ELSE JList(<<>>)
                   ELSE reasons0
    IN  IF ~ sc.ok THEN Raised
        ELSE IF ~ ValidResponse(reasons, improved) THEN Raised
        ELSE Returned(MakeResponse(Clamp(0, 100, sc.n), reasons, improved))

\* src/backend/main.py: from the text extraction to the return inside the try block
RemoteA(rep) ==
    IF rep.kind \notin {"object", "bare"} THEN Raised
    ELSE
    LET sc == PyInt(Get(rep.score, JInt(72)))
        reasons0 == Get(rep.reasons, JList(<< JStr("Message could be clearer") >>))
        improved == Get(rep.improved, JStr("Here is a clearer version of your message."))
        reasons == IF ~ IsList(reasons0) THEN JList(<< JStr(Str(reasons0)) >>)
                   ELSE reasons0
    IN  IF ~ sc.ok THEN Raised
        ELSE IF ~ ValidResponse(reasons, improved) THEN Raised
        ELSE Returned(MakeResponse(Max(0, Min(100, sc.n)), reasons, improved))

\* the static response of the other variant instead of the heuristic
FallbackBStatic(m) == StaticFallback

\* except Exception: pass, then the heuristic
FallbackB(m) == Heuristic(m)

\* except Exception as e: return the static response
FallbackA == StaticFallback

\* the outcome of the try block of src/main.py and what follows it
TryB(res, m) == IF res.ok THEN Ok(res.resp) ELSE Ok(FallbackB(m))

\* the failure is surfaced as an upstream error instead of swallowed
TryAStrict(res) == IF res.ok THEN Ok(res.resp) ELSE Error(502)

\* the outcome of the try block of src/backend/main.py
TryA(res) == IF res.ok THEN Ok(res.resp) ELSE Ok(FallbackA)

NoPrev == [msg |-> <<>>, outcome |-> NoOutcome]

\* if api_key is not None: an empty value counts as a credential
HasKeyNotNone == api_key # "unset"

\* if api_key:  /  if not OPENAI_API_KEY:
HasKey == api_key = "set"

(***************************************************************************)
(* Inputs.                                                                 *)
(***************************************************************************)
Pad(n) == [i \in 1..n |-> "x"]

RECURSIVE Flatten(_)
Flatten(ws) == IF ws = <<>> THEN <<>> ELSE Head(ws) \o Flatten(Tail(ws))

WordSeqs(W, k) == UNION {[1..j -> W] : j \in 0..k}

\* the first word, n filler characters, the remaining words
Raw(ws, n) ==
    IF ws = <<>> THEN Pad(n) ELSE Head(ws) \o Pad(n) \o Flatten(Tail(ws))

Words == { <<" ">>, <<"H","i">>, <<"Y","O","U">>, <<"f","r","e","e">> }

RawMessages == {Raw(ws, n) : ws \in WordSeqs(Words, MaxWords), n \in {0, 598}}

RichWords ==
    { <<" ">>, <<"H","i">>, <<"Y","O","U","R">>, <<"F","r","e","e">>,
      <<"C","a","l","e","n","d","a","r">>, KwSchedule, KwDiscount, KwLimitedTime }

RichMessages ==
    {Raw(ws, n) : ws \in WordSeqs(RichWords, MaxWords), n \in {0, 76, 598}}

PairMessages ==
    {Pad(n) \o (IF "cal" \in S THEN <<" ">> \o KwSchedule ELSE <<>>)
            \o (IF "sales" \in S THEN <<" ">> \o KwDiscount ELSE <<>>)
            \o (IF "you" \in S THEN <<" ">> \o KwYou ELSE <<>>) :
        S \in SUBSET {"cal", "sales", "you"}, n \in {1, 100, 601}}

ScoreVals ==
    { JMissing, JNull, JInt(-5), JInt(50), JInt(150), JFloat(879),
      JChars(<<"8","5">>), JChars(<<"h","i","g","h">>) }

ReasonsVals ==
    { JMissing, JNull, JList(<<>>),
      JList(<< JStr("Too generic"), JStr("No clear ask") >>),
      JList(<< JStr("ok"), JNull >>), JStr("Too vague"), JStr("") }

ImprovedVals ==
    { JMissing, JNull, JStr(""), JStr("Better"), JList(<< JStr("x") >>) }

Replies(kinds) ==
    {Reply(k, sv, rv, iv) :
        k \in kinds \cap {"object", "bare"},
        sv \in ScoreVals, rv \in ReasonsVals, iv \in ImprovedVals}
    \cup {Reply(k, JMissing, JMissing, JMissing) : k \in kinds \ {"object", "bare"}}

(***************************************************************************)
(* Initial state: a started process, no request in progress.               *)
(***************************************************************************)
Idle ==
    /\ pc = "idle"
    /\ raw = <<>>
    /\ msg = <<>>
    /\ reply = NoReply
    /\ outcome = NoOutcome
    /\ remoteCalls = 0
    /\ path = <<>>

Init ==
    /\ variant \in {"A", "B"}
    /\ api_key \in {"unset", "empty", "set"}
    /\ prev = NoPrev
    /\ Idle

Finish(o, step) ==
    /\ pc' = "done"
    /\ outcome' = o
    /\ path' = Append(path, step)

(***************************************************************************)
(* Variant B, src/main.py.                                                 *)
(***************************************************************************)
\* request model and handler up to the try block or the heuristic response
ReceiveB(r) ==
    /\ variant = "B"
    /\ pc = "idle"
    /\ raw' = r
    /\ UNCHANGED <<variant, api_key, reply, remoteCalls, prev>>
    /\ IF Len(r) < 1
       THEN /\ msg' = msg
            /\ Finish(Error(422), "request_model")
       ELSE LET m == Strip(r)
            IN  /\ msg' = m
                /\ IF m = <<>> THEN Finish(Error(400), "validate")
                   ELSE IF ~ HasKey THEN Finish(Ok(Heuristic(m)), "heuristic")
                   ELSE /\ pc' = "try"
                        /\ path' = Append(path, "try")
                        /\ outcome' = outcome

\* from openai import OpenAI raises
ImportFailsB ==
    /\ variant = "B"
    /\ pc = "try"
    /\ Finish(TryB(Raised, msg), "fallback")
    /\ UNCHANGED <<variant, api_key, raw, msg, reply, remoteCalls, prev>>

\* client.responses.create(...) is entered
CallRemoteB ==
    /\ variant = "B"
    /\ pc = "try"
    /\ pc' = "awaiting"
    /\ remoteCalls' = remoteCalls + 1
    /\ path' = Append(path, "call")
    /\ UNCHANGED <<variant, api_key, raw, msg, reply, outcome, prev>>

\* the call raises
RemoteRaisesB ==
    /\ variant = "B"
    /\ pc = "awaiting"
    /\ Finish(TryB(Raised, msg), "fallback")
    /\ UNCHANGED <<variant, api_key, raw, msg, reply, remoteCalls, prev>>

\* the call returns
RemoteReturnsB(rep) ==
    /\ variant = "B"
    /\ pc = "awaiting"
    /\ reply' = rep
    /\ LET res == RemoteB(rep)
       IN  Finish(TryB(res, msg), IF res.ok THEN "remote" ELSE "fallback")
    /\ UNCHANGED <<variant, api_key, raw, msg, remoteCalls, prev>>

(***************************************************************************)
(* Variant A, src/backend/main.py.                                         *)
(***************************************************************************)
ReceiveA(r) ==
    /\ variant = "A"
    /\ pc = "idle"
    /\ raw' = r
    /\ UNCHANGED <<variant, api_key, reply, remoteCalls, prev>>
    /\ LET m == Strip(r)
       IN  /\ msg' = m
           /\ IF m = <<>> THEN Finish(Error(400), "validate")
              ELSE IF ~ HasKey THEN Finish(Ok(Mock(m)), "mock")
              ELSE /\ pc' = "try"
                   /\ path' = Append(path, "try")
                   /\ outcome' = outcome

\* await client.post(...) is entered
CallRemoteA ==
    /\ variant = "A"
    /\ pc = "try"
    /\ pc' = "awaiting"
    /\ remoteCalls' = remoteCalls + 1
    /\ path' = Append(path, "call")
    /\ UNCHANGED <<variant, api_key, raw, msg, reply, outcome, prev>>

\* the post, raise_for_status or r.json() raises
RemoteRaisesA ==
    /\ variant = "A"
    /\ pc = "awaiting"
    /\ Finish(TryA(Raised), "fallback")
    /\ UNCHANGED <<variant, api_key, raw, msg, reply, remoteCalls, prev>>

RemoteReturnsA(rep) ==
    /\ variant = "A"
    /\ pc = "awaiting"
    /\ reply' = rep
    /\ LET res == RemoteA(rep)
       IN  Finish(TryA(res), IF res.ok THEN "remote" ELSE "fallback")
    /\ UNCHANGED <<variant, api_key, raw, msg, remoteCalls, prev>>

(***************************************************************************)
(* The response is sent and the request's objects are discarded.           *)
(***************************************************************************)
Reset ==
    /\ pc = "done"
    /\ pc' = "idle"
    /\ raw' = <<>>
    /\ msg' = <<>>
    /\ reply' = NoReply
    /\ outcome' = NoOutcome
    /\ remoteCalls' = 0
    /\ path' = <<>>
    /\ UNCHANGED <<variant, api_key, prev>>

\* the same, remembering the request for comparison with the next one
ResetRecording ==
    /\ pc = "done"
    /\ pc' = "idle"
    /\ raw' = <<>>
    /\ msg' = <<>>
    /\ reply' = NoReply
    /\ outcome' = NoOutcome
    /\ remoteCalls' = 0
    /\ path' = <<>>
    /\ prev' = [msg |-> msg, outcome |-> outcome]
    /\ UNCHANGED <<variant, api_key>>

Next ==
    \/ \E r \in RawMessages : ReceiveB(r)
    \/ ImportFailsB
    \/ CallRemoteB
    \/ RemoteRaisesB
    \/ \E rep \in Replies({"object", "array", "not_json"}) : RemoteReturnsB(rep)
    \/ \E r \in RawMessages : ReceiveA(r)
    \/ CallRemoteA
    \/ RemoteRaisesA
    \/ \E rep \in Replies({"object", "bare", "array", "not_json"}) : RemoteReturnsA(rep)
    \/ Reset

Spec == Init /\ [][Next]_vars

(***************************************************************************)
(* The heuristic scorer alone: variant B without a credential, on a richer *)
(* set of messages.                                                        *)
(***************************************************************************)
InitH ==
    /\ variant = "B"
    /\ api_key \in {"unset", "empty"}
    /\ prev = NoPrev
    /\ Idle

NextH ==
    \/ \E r \in RichMessages : ReceiveB(r)
    \/ Reset

SpecH == InitH /\ [][NextH]_vars

(***************************************************************************)
(* Two consecutive requests to the heuristic scorer.                       *)
(***************************************************************************)
NextPair ==
    \/ \E r \in PairMessages : ReceiveB(r)
    \/ ResetRecording

SpecPair == InitH /\ [][NextPair]_vars

TypeOK ==
    /\ pc \in {"idle", "try", "awaiting", "done"}
    /\ remoteCalls \in Nat
    /\ outcome.kind \in {"none", "response", "error"}

(***************************************************************************)
(* Properties.                                                             *)
(***************************************************************************)
Done == pc = "done"

\* the message has length 0 after trimming: it has only whitespace characters
TrimmedEmpty(r) == \A i \in DOMAIN r : r[i] \in {" ", "\t", "\n"}

Visited(step) == \E i \in DOMAIN path : path[i] = step

Configured == api_key = "set"

\* C1: a message that is empty after trimming is rejected with a 4xx client
\* error in both variants, with or without a credential; no response is
\* produced and neither the remote call nor a scorer is reached.
C1_EmptyRejected ==
    (pc # "idle" /\ TrimmedEmpty(raw)) =>
        /\ Done
        /\ outcome.kind = "error"
        /\ outcome.status \in 400..499
        /\ outcome.resp = NoResponse
        /\ remoteCalls = 0
        /\ \A st \in {"try", "call", "remote", "fallback", "heuristic", "mock"} :
              ~ Visited(st)

C1_Witness ==
    /\ Done
    /\ Configured
    /\ Len(raw) > 0
    /\ TrimmedEmpty(raw)
    /\ outcome = Error(400)

RuleOrder == <<"short", "long", "calendar", "salesy", "noyou">>

Fires(rule, m) ==
    LET lower == Lower(m)
    IN  CASE rule = "short" -> Len(m) < 80
          [] rule = "long" -> Len(m) > 600
          [] rule = "calendar" ->
                Contains(lower, KwCalendar) \/ Contains(lower, KwSchedule)
          [] rule = "salesy" ->
                \/ Contains(lower, KwFree)
                \/ Contains(lower, KwDiscount)
                \/ Contains(lower, KwLimitedTime)
          [] rule = "noyou" ->
                /\ ~ Contains(lower, KwYou)
                /\ ~ Contains(lower, KwYour)
                /\ ~ Contains(lower, KwYours)

Penalty(rule) ==
    CASE rule = "short" -> 8
      [] rule = "long" -> 10
      [] rule = "calendar" -> 5
      [] rule = "salesy" -> 6
      [] rule = "noyou" -> 7

RuleMessage(rule) ==
    CASE rule = "short" -> MsgShort
      [] rule = "long" -> MsgLong
      [] rule = "calendar" -> MsgCalendar
      [] rule = "salesy" -> MsgSalesy
      [] rule = "noyou" -> MsgNoYou

Fired(m) == {RuleOrder[i] : i \in {j \in DOMAIN RuleOrder : Fires(RuleOrder[j], m)}}

FiredInOrder(m) ==
    LET F == Fired(m) IN SelectSeq(RuleOrder, LAMBDA r : r \in F)

RECURSIVE PenaltySum(_)
PenaltySum(rules) ==
    IF rules = <<>> THEN 0 ELSE Penalty(Head(rules)) + PenaltySum(Tail(rules))

HeuristicAnswered == Done /\ outcome.kind = "response" /\ Visited("heuristic")

\* C2: for a non-empty trimmed message the heuristic scorer returns 75 minus
\* the penalties of the rules that fire, clamped to [20, 92]; the reasons are
\* the messages of the fired rules in rule order, or the default triple iff
\* no rule fired; improved is the fixed template.
C2_HeuristicResult ==
    HeuristicAnswered =>
        LET fired == FiredInOrder(msg)
            u == 75 - PenaltySum(fired)
        IN  /\ outcome.resp.score = (IF u < 20 THEN 20 ELSE IF u > 92 THEN 92 ELSE u)
            /\ outcome.resp.reasons =
                  (IF fired = <<>> THEN DefaultReasons
                   ELSE [i \in DOMAIN fired |-> RuleMessage(fired[i])])
            /\ (outcome.resp.reasons = DefaultReasons <=> fired = <<>>)
            /\ outcome.resp.improved = HeuristicImproved

\* an upper-case "YOUR" in a short message: only the short rule fires
C2_Witness ==
    /\ HeuristicAnswered
    /\ msg = <<"Y","O","U","R">>
    /\ outcome.resp.score = 67
    /\ outcome.resp.reasons = << MsgShort >>

\* C3: the score returned by the heuristic scorer lies in [20, 92].
C3_HeuristicRange ==
    HeuristicAnswered => outcome.resp.score \in 20..92

C3_Witness ==
    /\ HeuristicAnswered
    /\ Len(msg) > 600
    /\ outcome.resp.score = 47

\* C4: every response of /analyze, on every path and in both variants, has
\* an integer score between 0 and 100, whatever score the remote reply has.
C4_ScoreRange ==
    outcome.kind = "response" =>
        /\ outcome.resp.score \in Int
        /\ outcome.resp.score >= 0
        /\ outcome.resp.score <= 100

C4_Witness ==
    /\ Done
    /\ variant = "B"
    /\ Visited("remote")
    /\ reply.score = JInt(150)
    /\ outcome.kind = "response"
    /\ outcome.resp.score = 100

\* C5: every response of /analyze has a non-empty improved text, on every
\* path and in both variants, also when the remote reply omits improved or
\* sets it to an empty string or null.
C5_ImprovedNonEmpty ==
    outcome.kind = "response" => outcome.resp.improved # ""

\* int() raises on the reply's score: null, or a string that is no number
ScoreNotCoercible(v) ==
    \/ v.t = "null"
    \/ v.t = "list"
    \/ /\ v.t = "str"
       /\ \/ v.chars = <<>>
          \/ \E i \in DOMAIN v.chars :
                /\ v.chars[i] \notin {Digits[d] : d \in DOMAIN Digits}
                /\ ~ (i = 1 /\ v.chars[i] \in {"+", "-"})

SomeItemNotString(v) == v.t = "list" /\ \E i \in DOMAIN v.items : v.items[i].t # "str"

\* src/main.py: the remote path fails at some step (import, call, JSON parse,
\* score coercion, validation of reasons or improved)
RemoteFailedB ==
    /\ variant = "B" /\ Done /\ Configured /\ ~ TrimmedEmpty(raw)
    /\ \/ reply = NoReply
       \/ reply.kind # "object"
       \/ ScoreNotCoercible(reply.score)
       \/ SomeItemNotString(reply.reasons)
       \/ reply.improved.t \notin {"missing", "null", "str"}

\* src/backend/main.py: the remote path fails at some step
RemoteFailedA ==
    /\ variant = "A" /\ Done /\ Configured /\ ~ TrimmedEmpty(raw)
    /\ \/ reply = NoReply
       \/ reply.kind \notin {"object", "bare"}
       \/ ScoreNotCoercible(reply.score)
       \/ SomeItemNotString(reply.reasons)
       \/ reply.improved.t \notin {"missing", "str"}

\* C6: in src/main.py with a credential, a remote failure at any step is
\* swallowed and the response is exactly the heuristic scorer's output for
\* the trimmed message, as without a credential.
C6_FallbackIsHeuristic ==
    RemoteFailedB =>
        /\ outcome = Ok(Heuristic(Strip(raw)))
        /\ outcome.resp.improved = HeuristicImproved

\* validation of reasons fails after the call returned a JSON object
C6_Witness ==
    /\ RemoteFailedB
    /\ remoteCalls = 1
    /\ reply.kind = "object"
    /\ SomeItemNotString(reply.reasons)
    /\ Len(msg) > 600
    /\ outcome.resp.reasons = << MsgLong, MsgSalesy >>

WellFormed(resp) ==
    /\ resp.score \in Int
    /\ resp.reasons \in Seq(STRING)
    /\ resp.improved \in STRING

\* C7: in both variants a request with a non-empty trimmed message ends in a
\* well-formed response, never in an error; src/backend/main.py answers a
\* remote failure with the static response of score 70; the only error of
\* /analyze is the 4xx for empty input.
C7_NeverFails ==
    /\ (Done /\ ~ TrimmedEmpty(raw)) =>
            /\ outcome.kind = "response"
            /\ outcome.status = 200
            /\ WellFormed(outcome.resp)
    /\ RemoteFailedA => (outcome.resp = StaticFallback /\ outcome.resp.score = 70)
    /\ outcome.kind = "error" => (TrimmedEmpty(raw) /\ outcome.status \in 400..499)

C7_Witness ==
    /\ RemoteFailedA
    /\ remoteCalls = 1
    /\ reply.kind = "object"
    /\ reply.improved = JNull
    /\ outcome = Ok(StaticFallback)

\* C8: the remote call is attempted at most once per request, and never
\* without a credential or for an empty trimmed message; the remote path is
\* taken iff the credential is present.
C8_SingleAttempt ==
    /\ remoteCalls \in {0, 1}
    /\ (~ Configured \/ (pc # "idle" /\ TrimmedEmpty(raw))) => remoteCalls = 0
    /\ (pc # "idle" /\ ~ TrimmedEmpty(raw)) => (Visited("try") <=> Configured)
    /\ Visited("fallback") => Done

C8_Witness ==
    /\ Done
    /\ Configured
    /\ remoteCalls = 1
    /\ path = <<"try", "call", "fallback">>
    /\ reply.kind = "not_json"

\* C9: if the rules that fire on one message are a subset of those that
\* fire on another, the heuristic score of the second is at most that of
\* the first.
C9_Monotone ==
    (/\ HeuristicAnswered
     /\ prev.outcome.kind = "response"
     /\ Fired(prev.msg) \subseteq Fired(msg))
        => outcome.resp.score <= prev.outcome.resp.score

C9_Witness ==
    /\ HeuristicAnswered
    /\ prev.outcome.kind = "response"
    /\ Fired(prev.msg) = {"long"}
    /\ Fired(msg) = {"long", "calendar", "noyou"}
    /\ outcome.resp.score < prev.outcome.resp.score

\* C10: the short and the long rule never fire together, so the unclamped
\* score lies in [47, 75], the clamp leaves it unchanged, and the reasons
\* returned have between 1 and 4 entries.
C10_ClampIdle ==
    HeuristicAnswered =>
        LET h == HeuristicRules(msg)
        IN  /\ ~ (Len(msg) < 80 /\ Len(msg) > 600)
            /\ ~ (\E i \in DOMAIN h.reasons : h.reasons[i] = MsgShort)
               \/ ~ (\E i \in DOMAIN h.reasons : h.reasons[i] = MsgLong)
            /\ h.score \in 47..75
            /\ outcome.resp.score = h.score
            /\ Len(outcome.resp.reasons) \in 1..4

C10_Witness ==
    /\ HeuristicAnswered
    /\ HeuristicRules(msg).score = 47
    /\ Len(outcome.resp.reasons) = 4

====
